---- MODULE Spec2Model ----
(***************************************************************************)
(* A model of systemd-boot-manager: the library                            *)
(* usr/lib/python3/dist-packages/systemd_boot_manager/__init__.py and the  *)
(* service usr/share/systemd-boot-manager/service.py.                      *)
(*                                                                         *)
(* A Python string is a TLA+ string, read one character at a time with     *)
(* SubSeq, so that splitting, parsing and comparing act on the characters. *)
(* A Python list is a sequence; a dict is the sequence of its items in     *)
(* insertion order.  An uncaught exception ends a call with the            *)
(* exception's name as its status.                                         *)
(***************************************************************************)
EXTENDS Integers, Sequences, FiniteSets, TLC

VARIABLES
    \* LooseVersion comparison: the two version strings, the position of
    \* the comparison and its result
    va, vb, v_pc, v_out,
    \* the kernel catalog and the entry writer: os.listdir(BOOT_DIR),
    \* os.listdir(EFI_DIR), the position, the call made and its arguments,
    \* what get_kernel_versions gave, its kernel_verts dict, and the files
    \* under CLEAN_DIR
    boot_dir, efi_dir, k_pc, k_call, k_out, kernel_verts, entry_files,
    \* the root pointer: the block devices lsblk reports, the first line of
    \* root_device.conf and of UUID.conf (Absent: no such file),
    \* SETTINGS["key"], the position, the call made, and what it gave
    devices, root_device_conf, uuid_conf, settings_key, r_pc, r_call, r_out,
    \* the default entry: the text of enabled.conf and of DEFAULTS_FILE
    \* (Absent: no such file), the boot manager's entries and the id of its
    \* default entry (None: no entry is the default), the calls made so
    \* far, and the last call with what it read, did and gave
    enabled_conf, defaults_file, boot_entries, live_default, s_runs, s_last

versionVars == <<va, vb, v_pc, v_out>>
kernelVars == <<boot_dir, efi_dir, k_pc, k_call, k_out, kernel_verts, entry_files>>
rootVars == <<devices, root_device_conf, uuid_conf, settings_key, r_pc, r_call, r_out>>
serviceVars == <<enabled_conf, defaults_file, boot_entries, live_default,
                 s_runs, s_last>>
vars == <<va, vb, v_pc, v_out,
          boot_dir, efi_dir, k_pc, k_call, k_out, kernel_verts, entry_files,
          devices, root_device_conf, uuid_conf, settings_key, r_pc, r_call, r_out,
          enabled_conf, defaults_file, boot_entries, live_default, s_runs, s_last>>

(***************************************************************************)
(* Characters and strings                                                  *)
(***************************************************************************)

\* s[i] of a Python string (counted from 1): a one-character string.
ch(s, i) == SubSeq(s, i, i)

\* The characters used, in increasing code-point order.
AsciiOrder ==
    <<"+", "-", ".", "/", "0", "1", "2", "3", "4", "5", "6", "7", "8", "9",
      "_", "a", "b", "c", "d", "e", "f", "g", "h", "i", "j", "k", "l", "m",
      "n", "o", "p", "q", "r", "s", "t", "u", "v", "w", "x", "y", "z">>

ord(c) == CHOOSE i \in 1..Len(AsciiOrder) : AsciiOrder[i] = c

DigitChars == <<"0", "1", "2", "3", "4", "5", "6", "7", "8", "9">>

IsDigit(c) == \E i \in 1..10 : DigitChars[i] = c

IsLower(c) == ord(c) >= ord("a") /\ ord(c) <= ord("z")

\* The value of one decimal digit.
DigitVal(c) == (CHOOSE i \in 1..10 : DigitChars[i] = c) - 1

\* int(obj) of a non-empty run of decimal digits.
RECURSIVE int(_)
int(s) ==
    IF s = "" THEN 0
    ELSE 10 * int(SubSeq(s, 1, Len(s) - 1)) + DigitVal(ch(s, Len(s)))

\* str(n) of a natural number: decimal, no leading zeros.
RECURSIVE str(_)
str(n) ==
    IF n < 10 THEN DigitChars[n + 1]
    ELSE str(n \div 10) \o DigitChars[(n % 10) + 1]

\* str < str by code points: the first differing character decides, and a
\* string that is a prefix of the other is the smaller.
RECURSIVE StrCmp(_, _, _)
StrCmp(a, b, i) ==
    IF i > Len(a) /\ i > Len(b) THEN 0
    ELSE IF i > Len(a) THEN -1
    ELSE IF i > Len(b) THEN 1
    ELSE IF ch(a, i) = ch(b, i) THEN StrCmp(a, b, i + 1)
    ELSE IF ord(ch(a, i)) < ord(ch(b, i)) THEN -1 ELSE 1

StrLt(a, b) == StrCmp(a, b, 1) < 0

\* sub in s
contains(s, sub) ==
    \E i \in 1..(Len(s) - Len(sub) + 1) : SubSeq(s, i, i + Len(sub) - 1) = sub

\* s[-n:]
last(s, n) == IF Len(s) <= n THEN s ELSE SubSeq(s, Len(s) - n + 1, Len(s))

\* s.split(sep) for a one-character sep: a list of strings.
RECURSIVE split(_, _, _, _)
split(s, sep, i, acc) ==
    IF i > Len(s) THEN acc
    ELSE IF ch(s, i) = sep THEN split(s, sep, i + 1, Append(acc, ""))
    ELSE split(s, sep, i + 1,
             [acc EXCEPT ![Len(acc)] = acc[Len(acc)] \o ch(s, i)])

\* sep.join(list)
RECURSIVE join(_, _)
join(sep, list) ==
    IF list = <<>> THEN ""
    ELSE IF Len(list) = 1 THEN list[1]
    ELSE list[1] \o sep \o join(sep, Tail(list))

(***************************************************************************)
(* class LooseVersion                                                      *)
(***************************************************************************)

\* Which alternative of component_re a character starts: a run of digits,
\* a run of lowercase letters, a single period, or none of them (text that
\* re.split leaves between two matches).
CharClass(c) ==
    IF IsDigit(c) THEN "digit"
    ELSE IF IsLower(c) THEN "lower"
    ELSE IF c = "." THEN "dot"
    ELSE "other"

\* component_re.split(vstring) without the empty strings: the maximal runs
\* of digits, of lowercase letters and of unmatched text, and every period
\* on its own.
RECURSIVE re_split(_, _, _)
re_split(s, i, acc) ==
    IF i > Len(s) THEN acc
    ELSE IF acc # <<>>
            /\ CharClass(ch(s, i)) # "dot"
            /\ CharClass(ch(acc[Len(acc)], 1)) = CharClass(ch(s, i))
         THEN re_split(s, i + 1,
                  [acc EXCEPT ![Len(acc)] = acc[Len(acc)] \o ch(s, i)])
         ELSE re_split(s, i + 1, Append(acc, ch(s, i)))

\* One component: an int when int(obj) succeeds, else the string.
Component(obj) ==
    IF IsDigit(ch(obj, 1))
    THEN [isint |-> TRUE, n |-> int(obj), s |-> ""]
    ELSE [isint |-> FALSE, n |-> 0, s |-> obj]

\* LooseVersion.parse: self.version.
parse(vstring) ==
    LET parts == SelectSeq(re_split(vstring, 1, <<>>), LAMBDA x : x # ".")
    IN  [i \in 1..Len(parts) |-> Component(parts[i])]

\* Python's comparison of two lists of components that are all ints or
\* all strings: -1, 0 or 1.  The first index at which they differ decides,
\* by < on the two ints or the two strings.  When they differ nowhere the
\* shorter list is the smaller.
RECURSIVE ListCmp(_, _, _)
ListCmp(x, y, i) ==
    IF i > Len(x) /\ i > Len(y) THEN 0
    ELSE IF i > Len(x) THEN -1
    ELSE IF i > Len(y) THEN 1
    ELSE IF x[i] = y[i] THEN ListCmp(x, y, i + 1)
    ELSE IF x[i].isint THEN (IF x[i].n < y[i].n THEN -1 ELSE 1)
    ELSE IF StrLt(x[i].s, y[i].s) THEN -1 ELSE 1

\* str(part): a component as the string that writes it.
AsString(part) ==
    [isint |-> FALSE, n |-> 0, s |-> IF part.isint THEN str(part.n) ELSE part.s]

\* all(isinstance(part, int) for part in version)
AllInt(version) == \A i \in 1..Len(version) : version[i].isint

\* _cmp with every component compared as a string, whatever the components.
CmpAlwaysStrings(a, b) ==
    LET x == parse(a)
        y == parse(b)
    IN  ListCmp([i \in 1..Len(x) |-> AsString(x[i])],
                [i \in 1..Len(y) |-> AsString(y[i])], 1)

\* LooseVersion._cmp of LooseVersion(a) with LooseVersion(b): the two
\* lists of components are compared as they are when every component of
\* both is an int, and as lists of the components' strings otherwise.
_cmp(a, b) ==
    CHOOSE c \in {IF AllInt(x) /\ AllInt(y)
                  THEN ListCmp(x, y, 1)
                  ELSE ListCmp([i \in 1..Len(x) |-> AsString(x[i])],
                               [i \in 1..Len(y) |-> AsString(y[i])], 1) :
                      x \in {parse(a)}, y \in {parse(b)}} : TRUE

\* LooseVersion.__lt__
__lt__(a, b) == _cmp(a, b) < 0

(***************************************************************************)
(* Version strings compared by the LooseVersion specification              *)
(***************************************************************************)

\* Longest version string compared.
MaxVLen == 4

VersionChars == {"0", "1", "9", "."}

\* All strings of exactly n characters of VersionChars.
RECURSIVE StringsOfLen(_)
StringsOfLen(n) ==
    IF n = 0 THEN {""}
    ELSE {s \o c : s \in StringsOfLen(n - 1), c \in VersionChars}

\* Digit groups separated by single periods: no period first, last or twice
\* in a row.
DigitGroups(s) ==
    /\ s # ""
    /\ ch(s, 1) # "." /\ ch(s, Len(s)) # "."
    /\ \A i \in 1..(Len(s) - 1) : ~(ch(s, i) = "." /\ ch(s, i + 1) = ".")
    /\ \A i \in 1..Len(s) : ch(s, i) = "." \/ IsDigit(ch(s, i))

VersionStrings ==
    {s \in UNION {StringsOfLen(n) : n \in 1..MaxVLen} : DigitGroups(s)}

\* Version strings with alphabetic components: release candidates of 1.9
\* and 1.10 and a suffixed and a bare letter.
AlphaVersions == {"1.9rc1", "1.10rc1", "1.10a", "a"}

\* The strings a LooseVersion is made of.
ComparedStrings == VersionStrings \cup AlphaVersions

(***************************************************************************)
(* sorted(): CPython's list sort of fewer than 64 items, which is one run  *)
(* found by count_run and extended by binarysort.  The items are the keys, *)
(* compared as LooseVersion objects by __lt__.                             *)
(***************************************************************************)

Reverse(xs) == [i \in 1..Len(xs) |-> xs[Len(xs) + 1 - i]]

\* count_run: the last index of the run that starts at index 1 and holds
\* index i, strictly descending (desc) or not descending.
RECURSIVE count_run(_, _, _)
count_run(xs, desc, i) ==
    IF i = Len(xs) THEN i
    ELSE IF __lt__(xs[i + 1], xs[i]) = desc THEN count_run(xs, desc, i + 1)
    ELSE i

\* binarysort's search: where pivot goes among a[l..r-1], after its equals.
RECURSIVE bisect(_, _, _, _)
bisect(a, pivot, l, r) ==
    IF l >= r THEN l
    ELSE LET p == l + ((r - l) \div 2)
         IN  IF __lt__(pivot, a[p]) THEN bisect(a, pivot, l, p)
             ELSE bisect(a, pivot, p + 1, r)

\* binarysort: a[1..start-1] is sorted; insert a[start], a[start+1], ...
RECURSIVE binarysort(_, _)
binarysort(a, start) ==
    IF start > Len(a) THEN a
    ELSE LET l == bisect(a, a[start], 1, start)
         IN  binarysort(SubSeq(a, 1, l - 1) \o <<a[start]>>
                            \o SubSeq(a, l, start - 1)
                            \o SubSeq(a, start + 1, Len(a)),
                        start + 1)

\* sorted(xs, key=LooseVersion), ascending.
sorted(xs) ==
    IF Len(xs) < 2 THEN xs
    ELSE LET desc == __lt__(xs[2], xs[1])
             n == count_run(xs, desc, 2)
             run == IF desc THEN Reverse(SubSeq(xs, 1, n)) ELSE SubSeq(xs, 1, n)
         IN  binarysort(run \o SubSeq(xs, n + 1, Len(xs)), n + 1)

(***************************************************************************)
(* get_kernel_versions                                                     *)
(***************************************************************************)

\* A dict as the sequence of its items: key in d, d[key], d[key] = val.
has_key(d, key) == \E i \in 1..Len(d) : d[i].key = key

lookup(d, key) == d[CHOOSE i \in 1..Len(d) : d[i].key = key].val

dict_set(d, key, val) ==
    IF has_key(d, key)
    THEN [i \in 1..Len(d) |-> IF d[i].key = key THEN [key |-> key, val |-> val]
                              ELSE d[i]]
    ELSE Append(d, [key |-> key, val |-> val])

\* The filter of the listing: a file stays when its name holds "vmlinuz-"
\* and its last nine characters do not hold ".dpkg-tmp".
is_kernel_image(name) ==
    /\ contains(name, "vmlinuz-")
    /\ ~contains(last(name, 9), ".dpkg-tmp")

\* each.split("-")[1:]
vert_of(each) == Tail(split(each, "-", 1, <<"">>))

\* The while loop: the first patch_version, counted from 1, whose key
\* f"{vert[0]}.{patch_version}" is not in kernel_verts.
RECURSIVE patch_version(_, _, _)
patch_version(d, major, n) ==
    IF has_key(d, major \o "." \o str(n)) THEN patch_version(d, major, n + 1)
    ELSE n

\* The key one image is stored under, given the dict so far.
key_of(d, each) ==
    LET vert == vert_of(each)
    IN  IF Len(vert) > 1
        THEN vert[1] \o "." \o str(patch_version(d, vert[1], 1))
        ELSE vert[1]

\* The for loop over KERNELS that fills kernel_verts.
RECURSIVE fill_kernel_verts(_, _, _)
fill_kernel_verts(KERNELS, i, d) ==
    IF i > Len(KERNELS) THEN d
    ELSE fill_kernel_verts(KERNELS, i + 1,
             dict_set(d, key_of(d, KERNELS[i]), join("-", vert_of(KERNELS[i]))))

\* sorted(list(kernel_verts.keys()), key=LooseVersion)
sorted_keys(d) == sorted([i \in 1..Len(d) |-> d[i].key])

\* get_kernel_versions without the check that a kernel is left.
get_kernel_versions_unchecked(listing) ==
    LET KERNELS == SelectSeq(listing, is_kernel_image)
        d == fill_kernel_verts(KERNELS, 1, <<>>)
        keys == sorted_keys(d)
    IN  [status |-> "ok", verts |-> d, keys |-> keys,
         list |-> [i \in 1..Len(keys) |-> lookup(d, keys[i])]]

\* get_kernel_versions().  With no kernel image left the call ends at
\* error(...), a name the module does not define: NameError.  A key that is
\* the empty string gives a LooseVersion with no version attribute, and
\* comparing it (any sort of two keys or more) is an AttributeError.
get_kernel_versions(listing) ==
    LET KERNELS == SelectSeq(listing, is_kernel_image)
        d == fill_kernel_verts(KERNELS, 1, <<>>)
        keys == sorted_keys(d)
    IN  IF Len(KERNELS) < 1
        THEN [status |-> "NameError", verts |-> <<>>, keys |-> <<>>, list |-> <<>>]
        ELSE IF Len(d) >= 2 /\ has_key(d, "")
        THEN [status |-> "AttributeError", verts |-> d, keys |-> <<>>, list |-> <<>>]
        ELSE [status |-> "ok", verts |-> d, keys |-> keys,
              list |-> [i \in 1..Len(keys) |-> lookup(d, keys[i])]]

(***************************************************************************)
(* The entry renderers and writers                                         *)
(***************************************************************************)

\* distro.name().replace(" ", "_") on the distribution the package is for.
DISTRO == "Drauger_OS"

CLEAN_DIR == "/boot/efi/loader/entries/"

CONF_FILE == <<CLEAN_DIR \o DISTRO, ".conf">>

ROOT_FLAGS == "quiet splash"

RECOVERY_FLAGS == "ro recovery nomodeset"

\* get_conf_file_contents(root_pointer, boot_args, state=True)
get_conf_file_contents(root_pointer, boot_args) ==
    [status |-> "ok",
     contents |-> <<"title  " \o DISTRO,
                    "linux   /" \o DISTRO \o "/vmlinuz",
                    "initrd  /" \o DISTRO \o "/initrd.img",
                    "options root=" \o root_pointer \o " " \o boot_args>>]

\* dirs.index(x)
index(dirs, x) == CHOOSE i \in 1..Len(dirs) :
    dirs[i] = x /\ \A j \in 1..(i - 1) : dirs[j] # x

\* del dirs[i]
del(dirs, i) == SubSeq(dirs, 1, i - 1) \o SubSeq(dirs, i + 1, Len(dirs))

in_list(dirs, x) == \E i \in 1..Len(dirs) : dirs[i] = x

\* get_new_conf_file_contents(root_pointer, boot_args, version, state=True)
\* on the listing dirs of EFI_DIR.
get_new_conf_file_contents(dirs, root_pointer, boot_args, version) ==
    IF ~in_list(dirs, "EFI") THEN [status |-> "ValueError", contents |-> <<>>]
    ELSE LET d1 == del(dirs, index(dirs, "EFI"))
    IN  IF ~in_list(d1, "loader") THEN [status |-> "ValueError", contents |-> <<>>]
    ELSE LET d2 == del(d1, index(d1, "loader"))
    IN  IF ~in_list(d2, DISTRO) THEN [status |-> "ValueError", contents |-> <<>>]
    ELSE LET d3 == del(d2, index(d2, DISTRO))
    IN  IF d3 = <<>> THEN [status |-> "IndexError", contents |-> <<>>]
    ELSE LET rand_dir == d3[1]
    IN  [status |-> "ok",
         contents |-> <<"title   " \o DISTRO,
                        "linux   " \o rand_dir \o "/" \o version \o "/linux",
                        "initrd  " \o rand_dir \o "/" \o version
                            \o "/initrd.img-" \o version,
                        "options root=" \o root_pointer \o " " \o boot_args>>]

\* No call of get_kernel_versions was made.
NoKernels == [status |-> "none", verts |-> <<>>, keys |-> <<>>, list |-> <<>>]

\* open(name, "w+") and the writes: the file holds exactly these lines.
write_file(files, name, lines) ==
    {f \in files : f.name # name} \cup {[name |-> name, lines |-> lines]}

\* The first part of both writers: the contents, from func.  flag is
\* whether func takes a version (the new layout); get_kernel_versions is
\* called, before func, only for the new layout and kernel "latest".
\* kernel.lower() changes nothing: the kernels passed are lower case.
\* called and kv record the call of get_kernel_versions and what it gave.
entry_contents(listing, dirs, boot_args, root_pointer, kernel, flag) ==
    IF flag /\ kernel = "latest"
    THEN LET kv == CHOOSE r \in {get_kernel_versions(listing)} : TRUE
             c == IF kv.status # "ok"
                  THEN [status |-> kv.status, contents |-> <<>>]
                  ELSE IF kv.list = <<>>
                  THEN [status |-> "IndexError", contents |-> <<>>]
                  ELSE get_new_conf_file_contents(dirs, root_pointer, boot_args,
                                                  kv.list[1])
         IN  [status |-> c.status, contents |-> c.contents,
              called |-> TRUE, kv |-> kv]
    ELSE LET c == IF flag
                  THEN get_new_conf_file_contents(dirs, root_pointer, boot_args,
                                                  kernel)
                  ELSE get_conf_file_contents(root_pointer, boot_args)
         IN  [status |-> c.status, contents |-> c.contents,
              called |-> FALSE, kv |-> NoKernels]

\* The lines generate_loader_entry writes for a pinned kernel.
pinned_lines(contents, kernel, flag, title_end) ==
    [i \in 1..Len(contents) |->
        IF i = 1 THEN contents[i] \o " " \o kernel \o title_end
        ELSE IF ~flag /\ i \in {2, 3} THEN contents[i] \o "-" \o kernel
        ELSE contents[i]]

\* The file generate_loader_entry writes, from the contents.
loader_entry_file(contents, kernel, flag) ==
    IF kernel = "latest"
    THEN [name |-> CONF_FILE[1] \o CONF_FILE[2], lines |-> contents]
    ELSE [name |-> CONF_FILE[1] \o "-" \o kernel \o CONF_FILE[2],
          lines |-> pinned_lines(contents, kernel, flag, "")]

\* generate_recovery_loader_entry's file with the linux and initrd lines
\* of a pinned kernel left without the suffix.
recovery_entry_file_unsuffixed(contents, kernel, flag) ==
    [name |-> CONF_FILE[1] \o "-" \o kernel \o "_Recovery" \o CONF_FILE[2],
     lines |-> [i \in 1..Len(contents) |->
                   IF i = 1 THEN contents[i] \o " " \o kernel \o " Recovery"
                   ELSE contents[i]]]

\* The file generate_recovery_loader_entry writes, from the contents.
recovery_entry_file(contents, kernel, flag) ==
    IF kernel = "latest"
    THEN [name |-> CONF_FILE[1] \o "_Recovery" \o CONF_FILE[2],
          lines |-> [i \in 1..Len(contents) |->
                        IF i = 1 THEN contents[i] \o " Recovery" ELSE contents[i]]]
    ELSE [name |-> CONF_FILE[1] \o "-" \o kernel \o "_Recovery" \o CONF_FILE[2],
          lines |-> pinned_lines(contents, kernel, flag, " Recovery")]

(***************************************************************************)
(* The disk enumerator (lsblk --json) and the root pointer                 *)
(***************************************************************************)

\* Python's None, the JSON null of a column with no value.  No file and no
\* device holds this text.
None == "<None>"

\* No such file.
Absent == "<Absent>"

\* str(v) inside an f-string.
py_str(v) == IF v = None THEN "None" ELSE v

\* each[key_type]
column(each, key_type) ==
    CASE key_type = "uuid" -> each.uuid
      [] key_type = "partuuid" -> each.partuuid
      [] key_type = "label" -> each.label
      [] key_type = "path" -> each.path

\* key_type.upper()
upper(key_type) ==
    CASE key_type = "uuid" -> "UUID"
      [] key_type = "partuuid" -> "PARTUUID"
      [] key_type = "label" -> "LABEL"
      [] key_type = "path" -> "PATH"

\* The index of the first TRUE of a list of truth values, 0 when it has
\* none: where a for loop over the items first meets its condition.
first_index(hits) ==
    IF \E i \in 1..Len(hits) : hits[i]
    THEN CHOOSE i \in 1..Len(hits) :
             hits[i] /\ \A j \in 1..(i - 1) : ~hits[j]
    ELSE 0

\* get_key(device, key_type): the column of the record whose path is
\* device.  os.path.exists(device) holds for the paths of the block
\* devices.  dev is the index of the record read.
get_key(devs, device, key_type) ==
    LET i == first_index([n \in 1..Len(devs) |-> devs[n].path = device])
    IN  IF i = 0
        THEN [status |-> "FileNotFoundError", value |-> None, dev |-> 0]
        ELSE [status |-> "ok", value |-> column(devs[i], key_type), dev |-> i]

\* The kind of key the token of UUID.conf is for one record, "" when it is
\* none of the record's columns.  cols is how many of uuid, partuuid, label
\* the output holds.
match_kind(each, token, cols) ==
    IF token = each.uuid THEN "UUID"
    ELSE IF cols >= 2 /\ token = each.partuuid THEN "PARTUUID"
    ELSE IF cols >= 3 /\ token = each.label THEN "LABEL"
    ELSE ""

\* match_kind with the columns of all records tried in turn: uuid on every
\* record, then partuuid, then label.
match_columns_first(devs, token, cols) ==
    LET u == first_index([n \in 1..Len(devs) |-> token = devs[n].uuid])
        p == first_index([n \in 1..Len(devs) |-> cols >= 2 /\ token = devs[n].partuuid])
        l == first_index([n \in 1..Len(devs) |-> cols >= 3 /\ token = devs[n].label])
    IN  IF u # 0 THEN [status |-> "ok", value |-> "UUID=" \o token, dev |-> u]
        ELSE IF p # 0 THEN [status |-> "ok", value |-> "PARTUUID=" \o token, dev |-> p]
        ELSE IF l # 0 THEN [status |-> "ok", value |-> "LABEL=" \o token, dev |-> l]
        ELSE [status |-> "ok", value |-> token, dev |-> 0]

\* The UUID.conf branch: lsblk is asked for path,uuid,partuuid,label, then
\* for path,uuid,partuuid, then for path,uuid (cols = 3, 2, 1; 0: the last
\* call fails too, and its CalledProcessError is not caught).  The first
\* record one of whose columns is the token decides the kind; with no such
\* record the token is returned as it is.
from_uuid_conf(devs, token, cols) ==
    LET i == first_index([n \in 1..Len(devs) |-> match_kind(devs[n], token, cols) # ""])
    IN  IF cols = 0
        THEN [status |-> "CalledProcessError", value |-> None, dev |-> 0]
        ELSE IF i = 0
        THEN [status |-> "ok", value |-> token, dev |-> 0]
        ELSE [status |-> "ok", dev |-> i,
              value |-> match_kind(devs[i], token, cols) \o "=" \o token]

\* The root_device.conf branch.
from_root_device_conf(devs, device, key) ==
    LET k == get_key(devs, device, key)
    IN  IF k.status # "ok" THEN k
        ELSE IF key # "path"
        THEN [k EXCEPT !.value = upper(key) \o "=" \o py_str(k.value)]
        ELSE k

\* The last branch: the partuuid of the first record mounted at "/".
infer_root(devs) ==
    LET i == first_index([n \in 1..Len(devs) |-> devs[n].mountpoint = "/"])
    IN  IF i = 0
        THEN [status |-> "SystemExit", value |-> None, dev |-> 0]
        ELSE [status |-> "ok", dev |-> i,
              value |-> "PARTUUID=" \o py_str(devs[i].partuuid)]

\* get_root_pointer with UUID.conf looked for before root_device.conf.
get_root_pointer_uuid_conf_first(devs, device_conf, token_conf, key, cols) ==
    IF token_conf # Absent
    THEN [branch |-> "UUID.conf"] @@ from_uuid_conf(devs, token_conf, cols)
    ELSE IF device_conf # Absent
    THEN [branch |-> "root_device.conf"] @@ from_root_device_conf(devs, device_conf, key)
    ELSE [branch |-> "infer"] @@ infer_root(devs)

\* get_root_pointer(VERBOSE): status, the value returned, the branch taken
\* and the index of the record the value was read from or matched on.
get_root_pointer(devs, device_conf, token_conf, key, cols) ==
    IF device_conf # Absent
    THEN [branch |-> "root_device.conf"] @@ from_root_device_conf(devs, device_conf, key)
    ELSE IF token_conf # Absent
    THEN [branch |-> "UUID.conf"] @@ from_uuid_conf(devs, token_conf, cols)
    ELSE [branch |-> "infer"] @@ infer_root(devs)

\* text.replace("I", "i")
RECURSIVE replace_I(_)
replace_I(text) ==
    IF text = "" THEN ""
    ELSE (IF ch(text, 1) = "I" THEN "i" ELSE ch(text, 1))
             \o replace_I(SubSeq(text, 2, Len(text)))

\* get_devices(): the PATH, TYPE, MOUNTPOINT and PARTUUID columns, every
\* "I" of the JSON text made an "i", and the records of type loop deleted.
\* from is the record's index in the enumerator's output.
get_devices(devs) ==
    LET fix(v) == IF v = None THEN None ELSE replace_I(v)
        all == [i \in 1..Len(devs) |->
                   [path |-> fix(devs[i].path), type |-> fix(devs[i].type),
                    mountpoint |-> fix(devs[i].mountpoint),
                    partuuid |-> fix(devs[i].partuuid), from |-> i]]
    IN  SelectSeq(all, LAMBDA each : each.type # "loop")

\* get_root_partition(verbose): the path of the first device mounted at
\* "/", None when there is none.
get_root_partition(devs) ==
    LET list == get_devices(devs)
        i == first_index([n \in 1..Len(list) |-> list[n].mountpoint = "/"])
    IN  IF i = 0 THEN [status |-> "ok", value |-> None, dev |-> 0]
        ELSE [status |-> "ok", value |-> list[i].path, dev |-> list[i].from]

(***************************************************************************)
(* The root pointer specification: one call on a set of block devices      *)
(***************************************************************************)

\* Most block devices the enumerator reports.
MaxDevices == 2

\* The path of the i-th block device.
device_path(i) == "/dev/sda" \o str(i)

\* The records of one block device: a partition or a loop device, mounted
\* at "/" or not, each identifier set or null.  A label may be the text of
\* another device's uuid.
DeviceRecords(i) ==
    [path : {device_path(i)}, type : {"part", "loop"}, mountpoint : {None, "/"},
     uuid : {None, "aa"}, partuuid : {None, "aa"}, label : {None, "aa"}]

RECURSIVE DeviceLists(_)
DeviceLists(n) ==
    IF n = 0 THEN {<<>>}
    ELSE {Append(l, d) : l \in DeviceLists(n - 1), d \in DeviceRecords(n)}

KeyTypes == {"uuid", "partuuid", "label", "path"}

NoRootCall == [op |-> "none", branch |-> "", cols |-> 0]

NoRootResult == [status |-> "none", value |-> None, dev |-> 0]

InitRootIdle ==
    /\ devices = <<>> /\ root_device_conf = Absent /\ uuid_conf = Absent
    /\ settings_key = "partuuid" /\ r_pc = "idle" /\ r_call = NoRootCall
    /\ r_out = NoRootResult

(***************************************************************************)
(* The boot manager (bootctl) and the default entry                        *)
(***************************************************************************)

IsSpace(c) == c = " " \/ c = "\n"

\* The words of text from position i on: the first starts at the first
\* character from i that is not whitespace and ends before the next
\* whitespace, the others follow it.
RECURSIVE words_from(_, _)
words_from(text, i) ==
    LET n == Len(text)
    IN  IF \A k \in i..n : IsSpace(ch(text, k)) THEN <<>>
        ELSE LET a == CHOOSE j \in i..n :
                          /\ ~IsSpace(ch(text, j))
                          /\ \A k \in i..(j - 1) : IsSpace(ch(text, k))
                 b == CHOOSE j \in a..n :
                          /\ (j = n \/ IsSpace(ch(text, j + 1)))
                          /\ \A k \in a..j : ~IsSpace(ch(text, k))
             IN  <<SubSeq(text, a, b)>> \o words_from(text, b + 1)

\* text.split(): the words between runs of whitespace, in order.
ws_split(text) == words_from(text, 1)

\* text[:-10]
drop_last_10(text) == IF Len(text) <= 10 THEN "" ELSE SubSeq(text, 1, Len(text) - 10)

\* The lines of `bootctl list --no-pager` for the boot manager's entries:
\* for each entry its title, marked (default) on the default entry, its id
\* and its source, after a heading and before the empty string that
\* split("\n") leaves after the last line.
RECURSIVE bootctl_list(_, _, _)
bootctl_list(entries, default, i) ==
    IF i > Len(entries) THEN <<"">>
    ELSE <<"        title: " \o entries[i].title
               \o (IF entries[i].id = default THEN " (default)" ELSE ""),
           "           id: " \o entries[i].id,
           "       source: /boot/efi/loader/entries/" \o entries[i].id>>
         \o bootctl_list(entries, default, i + 1)

\* One step of the for loop of get_boot_entries on line each: st is the
\* dict output and the variable name.  An id line stores the id under
\* name; that is a KeyError when output has no such key.
parse_line(st, each) ==
    LET words == ws_split(each)
        joined == join(" ", Tail(words))
    IN  IF st.status # "ok" THEN st
        ELSE IF contains(each, "title: ")
        THEN IF contains(each, "(default)")
             THEN [st EXCEPT
                      !.output = dict_set(@, drop_last_10(joined),
                                          [default |-> TRUE, id |-> None]),
                      !.name = drop_last_10(joined)]
             ELSE [st EXCEPT
                      !.output = dict_set(@, joined,
                                          [default |-> FALSE, id |-> None]),
                      !.name = joined]
        ELSE IF contains(each, "id: ")
        THEN IF has_key(st.output, st.name)
             THEN [st EXCEPT
                      !.output = dict_set(@, st.name,
                                     [lookup(st.output, st.name) EXCEPT
                                         !.id = words[Len(words)]])]
             ELSE [st EXCEPT !.status = "KeyError"]
        ELSE st

RECURSIVE parse_lines(_, _, _)
parse_lines(lines, i, st) ==
    IF i > Len(lines) THEN st
    ELSE parse_lines(lines, i + 1, parse_line(st, lines[i]))

\* get_boot_entries(): the dict of the entries by title, parsed from the
\* lines of bootctl list.
get_boot_entries(entries, default) ==
    parse_lines(<<"Boot Loader Entries:">> \o bootctl_list(entries, default, 1),
                1, [status |-> "ok", output |-> <<>>, name |-> ""]).output

\* get_default_boot_entry(verbose): the id of the first parsed entry that
\* is the default, None when no entry is.
get_default_boot_entry(entries, default) ==
    LET parsed == get_boot_entries(entries, default)
        i == first_index([n \in 1..Len(parsed) |-> parsed[n].val.default])
    IN  IF i = 0 THEN None ELSE parsed[i].val.id

\* Whether text.split() has a word.
has_word(text) == \E k \in 1..Len(text) : ~IsSpace(ch(text, k))

\* text.split()[0]: the word that starts at the first character that is
\* not whitespace and ends before the next whitespace.
first_word(text) ==
    LET n == Len(text)
        a == CHOOSE j \in 1..n :
                 /\ ~IsSpace(ch(text, j))
                 /\ \A k \in 1..(j - 1) : IsSpace(ch(text, k))
        b == CHOOSE j \in a..n :
                 /\ (j = n \/ IsSpace(ch(text, j + 1)))
                 /\ \A k \in a..j : ~IsSpace(ch(text, k))
    IN  SubSeq(text, a, b)

\* read_defaults_file(): the first word of DEFAULTS_FILE.
read_defaults_file(text) ==
    IF text = Absent THEN [status |-> "FileNotFoundError", value |-> None]
    ELSE IF ~has_word(text) THEN [status |-> "IndexError", value |-> None]
    ELSE [status |-> "ok", value |-> first_word(text)]

\* check_default_entry without the test for "#".
check_default_entry_no_wildcard(text, entries, default) ==
    LET intended_default == read_defaults_file(text)
    IN  IF intended_default.status # "ok"
        THEN [status |-> intended_default.status, value |-> FALSE]
        ELSE [status |-> "ok",
              value |-> get_default_boot_entry(entries, default)
                            = intended_default.value]

\* check_default_entry(verbose)
check_default_entry(text, entries, default) ==
    LET intended_default == read_defaults_file(text)
    IN  IF intended_default.status # "ok"
        THEN [status |-> intended_default.status, value |-> FALSE]
        ELSE IF get_default_boot_entry(entries, default) = intended_default.value
        THEN [status |-> "ok", value |-> TRUE]
        ELSE IF intended_default.value = "#"
        THEN [status |-> "ok", value |-> TRUE]
        ELSE [status |-> "ok", value |-> FALSE]

DEFAULTS_FILE_ADDON ==
    "# This file defines the default boot entry that systemd-boot should be using.\n"
    \o "    # It only reads the first line, but these other lines are being commented out like\n"
    \o "    # in a shell script because if this file gets renamed and used for other purposes,\n"
    \o "    # then this syntax will be honored\n"
    \o "    #\n"
    \o "    # That first line needs to be the Entry ID you want to be default from\n"
    \o "    # `bootctl list`\n"
    \o "    #\n"
    \o "    # If you don't want systemd-boot-manager changing the default entry, just comment that\n"
    \o "    # first line out and it will not do anything."

\* update_defaults_file(default_entry): the text written to DEFAULTS_FILE.
update_defaults_file(default_entry) ==
    (IF default_entry # None THEN default_entry ELSE "# default_entry_here.conf")
        \o "\n" \o DEFAULTS_FILE_ADDON

\* The commands `bootctl set-default entry` that set_as_default_entry
\* issues: one for every parsed entry whose id is entry.
set_default_commands(entry, entries, default) ==
    LET parsed == get_boot_entries(entries, default)
        hits == SelectSeq(parsed, LAMBDA item : item.val.id = entry)
    IN  [i \in 1..Len(hits) |-> entry]

\* The edit_file argument the service passes to set_as_default_entry.
service_edit_file == FALSE

(***************************************************************************)
(* The default entry specification: runs of the service and calls of       *)
(* check_default_entry and set_as_default_entry                            *)
(***************************************************************************)

\* Most entries of the boot manager.
MaxEntries == 2

\* Most calls in a behaviour.
MaxRuns == 2

\* The id of the boot manager's i-th entry.
entry_id(i) == "entry" \o str(i) \o ".conf"

Titles == {"Drauger OS", "Windows Boot Manager"}

\* The boot manager's entries: every entry has an id of its own, and two
\* entries may have the same title.
EntryLists ==
    UNION {{[i \in 1..n |-> [title |-> t[i], id |-> entry_id(i)]] :
               t \in [1..n -> Titles]} : n \in 0..MaxEntries}

\* Texts of DEFAULTS_FILE: an id, as update_defaults_file writes it and
\* alone; the dummy value; an id commented out with no space; an id of no
\* entry; nothing.
DefaultsTexts ==
    {update_defaults_file(entry_id(1)), entry_id(2),
     update_defaults_file(None), "#" \o entry_id(1), "entry0.conf", ""}

NoServiceCall ==
    [op |-> "none", status |-> "none", enabled |-> FALSE, synced |-> FALSE,
     intended |-> None, cmds |-> <<>>, set_failed |-> FALSE,
     defaults_before |-> Absent, default_before |-> None]

InitServiceIdle ==
    /\ enabled_conf = Absent /\ defaults_file = Absent /\ boot_entries = <<>>
    /\ live_default = None /\ s_runs = 0 /\ s_last = NoServiceCall

(***************************************************************************)
(* The kernel catalog specification: one call on a boot directory          *)
(***************************************************************************)

\* Most files in the listing of BOOT_DIR.
MaxFiles == 3

\* The names a listing of BOOT_DIR is drawn from: kernel images named by
\* version alone and by version and flavour, an install artifact, and a
\* file that is no kernel image.
BootFiles ==
    {"vmlinuz-5.4", "vmlinuz-5.10", "vmlinuz-5.4.1",
     "vmlinuz-5.4-generic", "vmlinuz-5.4-oem", "vmlinuz-5.10-generic",
     "vmlinuz-5.10-generic.dpkg-tmp", "initrd.img-5.4"}

\* os.listdir gives the names of a directory, each once, in any order.
Listings(names, max) ==
    {l \in UNION {[1..n -> names] : n \in 0..max} :
        \A i, j \in 1..Len(l) : i # j => l[i] # l[j]}

\* Listings of EFI_DIR: one candidate directory, none, two, and no
\* directory of the distribution.
EfiListings ==
    {<<"EFI", "loader", DISTRO, "6a98">>,
     <<"EFI", "loader", DISTRO>>,
     <<"b7c1", "EFI", "6a98", "loader", DISTRO>>,
     <<"EFI", "loader", "6a98">>}

Kernels == {"latest", "5.4"}

RootPointers == {"PARTUUID=abcd", "/dev/sda1"}

BootArgs == {ROOT_FLAGS, RECOVERY_FLAGS}

NoCall == [op |-> "none", kernel |-> "", flag |-> FALSE, called |-> FALSE,
           boot_args |-> "", root_pointer |-> ""]

InitVersionIdle ==
    /\ va = "" /\ vb = "" /\ v_pc = "idle" /\ v_out = 0

InitKernelIdle ==
    /\ boot_dir = <<>> /\ efi_dir = <<>> /\ k_pc = "idle" /\ k_call = NoCall
    /\ k_out = NoKernels /\ kernel_verts = <<>> /\ entry_files = {}

InitKernel ==
    /\ boot_dir \in Listings(BootFiles, MaxFiles)
    /\ efi_dir \in EfiListings
    /\ k_pc = "start"
    /\ k_call = NoCall
    /\ k_out = NoKernels
    /\ kernel_verts = <<>>
    /\ entry_files = {}
    /\ InitVersionIdle
    /\ InitRootIdle
    /\ InitServiceIdle

\* A call of get_kernel_versions().
GetKernelVersions ==
    /\ k_pc = "start"
    /\ \E kv \in {get_kernel_versions(boot_dir)} :
           /\ k_out' = [kv EXCEPT !.verts = <<>>]
           /\ kernel_verts' = kv.verts
           /\ k_pc' = IF kv.status = "ok" THEN "done" ELSE kv.status
    /\ k_call' = [NoCall EXCEPT !.op = "get_kernel_versions", !.called = TRUE]
    /\ UNCHANGED <<boot_dir, efi_dir, entry_files>>
    /\ UNCHANGED <<versionVars, rootVars, serviceVars>>

\* A call of one of the two writers: the contents, then the file.
Generate(op, boot_args, root_pointer, kernel, flag) ==
    /\ k_pc = "start"
    /\ \E c \in {entry_contents(boot_dir, efi_dir, boot_args, root_pointer,
                                kernel, flag)} :
        /\ k_call' = [op |-> op, kernel |-> kernel, flag |-> flag,
                      called |-> c.called, boot_args |-> boot_args,
                      root_pointer |-> root_pointer]
        /\ k_out' = IF c.called THEN [c.kv EXCEPT !.verts = <<>>] ELSE NoKernels
        /\ kernel_verts' = IF c.called THEN c.kv.verts ELSE <<>>
        /\ IF c.status = "ok"
           THEN /\ k_pc' = "done"
                /\ entry_files' =
                     LET f == IF op = "generate_loader_entry"
                              THEN loader_entry_file(c.contents, kernel, flag)
                              ELSE recovery_entry_file(c.contents, kernel, flag)
                     IN  write_file(entry_files, f.name, f.lines)
           ELSE /\ k_pc' = c.status
                /\ UNCHANGED entry_files
        /\ UNCHANGED <<boot_dir, efi_dir>>
        /\ UNCHANGED <<versionVars, rootVars, serviceVars>>

\* generate_loader_entry(boot_args, root_pointer, kernel, func)
GenerateLoaderEntry ==
    \E boot_args \in BootArgs, root_pointer \in RootPointers,
       kernel \in Kernels, flag \in BOOLEAN :
        Generate("generate_loader_entry", boot_args, root_pointer, kernel, flag)

\* generate_recovery_loader_entry(boot_args, root_pointer, kernel, func)
GenerateRecoveryLoaderEntry ==
    \E boot_args \in BootArgs, root_pointer \in RootPointers,
       kernel \in Kernels, flag \in BOOLEAN :
        Generate("generate_recovery_loader_entry", boot_args, root_pointer,
                 kernel, flag)

NextKernel ==
    \/ GetKernelVersions
    \/ GenerateLoaderEntry
    \/ GenerateRecoveryLoaderEntry

SpecKernel == InitKernel /\ [][NextKernel]_vars

(***************************************************************************)
(* The LooseVersion specification: one comparison of two version strings   *)
(***************************************************************************)

InitVersion ==
    /\ va \in ComparedStrings
    /\ vb \in ComparedStrings
    /\ v_pc = "start"
    /\ v_out = 0
    /\ InitKernelIdle
    /\ InitRootIdle
    /\ InitServiceIdle

\* LooseVersion(va)._cmp(LooseVersion(vb))
Compare ==
    /\ v_pc = "start"
    /\ v_out' = _cmp(va, vb)
    /\ v_pc' = "done"
    /\ UNCHANGED <<va, vb>>
    /\ UNCHANGED <<kernelVars, rootVars, serviceVars>>

NextVersion == Compare

SpecVersion == InitVersion /\ [][NextVersion]_vars

(***************************************************************************)
(* The root pointer specification, continued                               *)
(***************************************************************************)

InitRoot ==
    /\ devices \in UNION {DeviceLists(n) : n \in 0..MaxDevices}
    /\ root_device_conf \in {Absent} \cup {device_path(i) : i \in 1..MaxDevices}
    /\ uuid_conf \in {Absent, "aa", ""}
    /\ settings_key \in KeyTypes
    /\ r_pc = "start"
    /\ r_call = NoRootCall
    /\ r_out = NoRootResult
    /\ InitVersionIdle
    /\ InitKernelIdle
    /\ InitServiceIdle

\* A call of get_root_pointer(VERBOSE).  In the UUID.conf branch the
\* enumerator knows all of the columns asked for, some or none.
GetRootPointer ==
    /\ r_pc = "start"
    /\ \E cols \in IF root_device_conf = Absent /\ uuid_conf # Absent
                   THEN 0..3 ELSE {3} :
       \E r \in {get_root_pointer(devices, root_device_conf, uuid_conf,
                                   settings_key, cols)} :
           /\ r_call' = [op |-> "get_root_pointer", branch |-> r.branch,
                         cols |-> cols]
           /\ r_out' = [status |-> r.status, value |-> r.value, dev |-> r.dev]
           /\ r_pc' = IF r.status = "ok" THEN "done" ELSE r.status
    /\ UNCHANGED <<devices, root_device_conf, uuid_conf, settings_key>>
    /\ UNCHANGED <<versionVars, kernelVars, serviceVars>>

\* A call of get_root_partition(verbose).  When lsblk fails, get_devices
\* ends the program with lsblk's exit status.
GetRootPartition ==
    /\ r_pc = "start"
    /\ \E lsblk_ok \in BOOLEAN :
       \E r \in {IF lsblk_ok THEN get_root_partition(devices)
                 ELSE [status |-> "SystemExit", value |-> None, dev |-> 0]} :
           /\ r_call' = [op |-> "get_root_partition", branch |-> "", cols |-> 0]
           /\ r_out' = r
           /\ r_pc' = IF r.status = "ok" THEN "done" ELSE r.status
    /\ UNCHANGED <<devices, root_device_conf, uuid_conf, settings_key>>
    /\ UNCHANGED <<versionVars, kernelVars, serviceVars>>

NextRoot ==
    \/ GetRootPointer
    \/ GetRootPartition

SpecRoot == InitRoot /\ [][NextRoot]_vars

(***************************************************************************)
(* The default entry specification, continued                              *)
(***************************************************************************)

InitService ==
    /\ enabled_conf \in {Absent, "enabled", "disabled", ""}
    /\ defaults_file \in DefaultsTexts
    /\ boot_entries \in EntryLists
    /\ live_default \in {None} \cup {boot_entries[i].id : i \in 1..Len(boot_entries)}
    /\ s_runs = 0
    /\ s_last = NoServiceCall
    /\ InitVersionIdle
    /\ InitKernelIdle
    /\ InitRootIdle

\* set_as_default_entry(entry, edit_file) on the state of the boot manager:
\* the commands issued; when one is issued and succeeds (set_ok) the entry
\* is the default, and with edit_file DEFAULTS_FILE is written first.
SetAsDefaultEntryEffect(entry, edit_file, cmds, set_ok) ==
    /\ live_default' = IF cmds # <<>> /\ set_ok THEN entry ELSE live_default
    /\ defaults_file' = IF cmds # <<>> /\ edit_file
                        THEN update_defaults_file(entry) ELSE defaults_file

\* One run of service.py.  is_enabled() creates enabled.conf when it is
\* missing and the service may write it, and is then True; else it is
\* whether the file's text is not empty.
Service ==
    /\ s_runs < MaxRuns
    /\ s_runs' = s_runs + 1
    /\ UNCHANGED boot_entries
    /\ \E may_write \in BOOLEAN :
           enabled_conf' = IF enabled_conf = Absent /\ may_write THEN "enabled"
                           ELSE enabled_conf
    /\ \E enabled \in {enabled_conf = Absent \/ enabled_conf # ""},
          c \in {check_default_entry(defaults_file, boot_entries, live_default)} :
        LET base == [NoServiceCall EXCEPT
                        !.op = "service", !.enabled = enabled,
                        !.defaults_before = defaults_file,
                        !.default_before = live_default]
        IN  IF ~enabled
            THEN /\ s_last' = [base EXCEPT !.status = "ok"]
                 /\ UNCHANGED <<defaults_file, live_default>>
            ELSE IF c.status # "ok"
            THEN /\ s_last' = [base EXCEPT !.status = c.status]
                 /\ UNCHANGED <<defaults_file, live_default>>
            ELSE IF c.value
            THEN /\ s_last' = [base EXCEPT
                                  !.status = "ok", !.synced = TRUE,
                                  !.intended = read_defaults_file(defaults_file).value]
                 /\ UNCHANGED <<defaults_file, live_default>>
            ELSE \E intended \in {read_defaults_file(defaults_file).value} :
                 \E cmds \in {set_default_commands(intended, boot_entries,
                                                   live_default)} :
                 \E set_ok \in BOOLEAN :
                     /\ s_last' = [base EXCEPT
                                      !.status = "ok", !.synced = FALSE,
                                      !.intended = intended, !.cmds = cmds,
                                      !.set_failed = (cmds # <<>> /\ ~set_ok)]
                     /\ SetAsDefaultEntryEffect(intended, service_edit_file,
                                                cmds, set_ok)
    /\ UNCHANGED <<versionVars, kernelVars, rootVars>>

\* A call of check_default_entry().
CheckDefaultEntry ==
    /\ s_runs < MaxRuns
    /\ s_runs' = s_runs + 1
    /\ \E c \in {check_default_entry(defaults_file, boot_entries, live_default)} :
           s_last' = [NoServiceCall EXCEPT
                         !.op = "check_default_entry", !.status = c.status,
                         !.synced = c.value,
                         !.intended = read_defaults_file(defaults_file).value,
                         !.defaults_before = defaults_file,
                         !.default_before = live_default]
    /\ UNCHANGED <<enabled_conf, defaults_file, boot_entries, live_default>>
    /\ UNCHANGED <<versionVars, kernelVars, rootVars>>

\* A call of set_as_default_entry(entry), as the command line makes it,
\* with edit_file=True.
SetAsDefaultEntry ==
    /\ s_runs < MaxRuns
    /\ s_runs' = s_runs + 1
    /\ \E entry \in {entry_id(i) : i \in 1..MaxEntries} :
       \E cmds \in {set_default_commands(entry, boot_entries, live_default)} :
       \E set_ok \in BOOLEAN :
           /\ s_last' = [NoServiceCall EXCEPT
                            !.op = "set_as_default_entry", !.status = "ok",
                            !.intended = entry, !.cmds = cmds,
                            !.set_failed = (cmds # <<>> /\ ~set_ok),
                            !.defaults_before = defaults_file,
                            !.default_before = live_default]
           /\ SetAsDefaultEntryEffect(entry, TRUE, cmds, set_ok)
    /\ UNCHANGED <<enabled_conf, boot_entries>>
    /\ UNCHANGED <<versionVars, kernelVars, rootVars>>

NextService ==
    \/ Service
    \/ CheckDefaultEntry
    \/ SetAsDefaultEntry

SpecService == InitService /\ [][NextService]_vars

(***************************************************************************)
(* Properties of LooseVersion                                              *)
(***************************************************************************)

\* Where the digit groups of a version string start.
GroupStarts(s) ==
    {i \in 1..Len(s) : ch(s, i) # "." /\ (i = 1 \/ ch(s, i - 1) = ".")}

\* The last index of the digit group that starts at index st.
GroupEnd(s, st) ==
    CHOOSE e \in st..Len(s) :
        /\ \A j \in st..e : ch(s, j) # "."
        /\ e = Len(s) \/ ch(s, e + 1) = "."

RECURSIVE Pow10(_)
Pow10(n) == IF n = 0 THEN 1 ELSE 10 * Pow10(n - 1)

\* The number the digits s[st..e] write: the sum of digit * 10^place.
RECURSIVE GroupValue(_, _, _)
GroupValue(s, st, e) ==
    IF st > e THEN 0
    ELSE DigitVal(ch(s, st)) * Pow10(e - st) + GroupValue(s, st + 1, e)

\* The sequence of integers a string of digit groups writes.
IntGroups(s) ==
    LET starts == GroupStarts(s)
        nth(k) == CHOOSE i \in starts : Cardinality({j \in starts : j < i}) = k - 1
    IN  [k \in 1..Cardinality(starts) |-> GroupValue(s, nth(k), GroupEnd(s, nth(k)))]

\* x < y for two sequences of integers: they agree before some index k of
\* y, where x has ended or holds a smaller number.
TupleLess(x, y) ==
    \E k \in 1..Len(y) :
        /\ \A j \in 1..(k - 1) : j <= Len(x) /\ x[j] = y[j]
        /\ k <= Len(x) => x[k] < y[k]

\* C8: for two version strings made of digit groups separated by periods,
\* the comparison's result is that of the two sequences of integers: -1
\* when the first is the smaller (its first differing number is smaller, or
\* it is a strict prefix), 0 when they are equal, 1 otherwise.
C8_NumericTupleOrder ==
    (v_pc = "done" /\ DigitGroups(va) /\ DigitGroups(vb)) =>
        LET x == IntGroups(va)
            y == IntGroups(vb)
        IN  /\ v_out \in {-1, 0, 1}
            /\ (v_out = -1) <=> TupleLess(x, y)
            /\ (v_out = 0) <=> (x = y)
            /\ (v_out = 1) <=> TupleLess(y, x)

\* 1.9 is compared with 1.10 and found smaller.
C8_Witness ==
    v_pc = "done" /\ va = "1.9" /\ vb = "1.10" /\ v_out = -1

\* C14: over the strings compared, LooseVersion's comparison gives
\* exactly one of <, == and >, the opposite when the two are exchanged, and
\* is transitive: a < b and b < c give a < c.
C14_ConsistentOrdering ==
    v_pc = "done" =>
        /\ v_out \in {-1, 0, 1}
        /\ _cmp(vb, va) = 0 - v_out
        /\ v_out = -1 =>
               \A c \in ComparedStrings :
                   _cmp(vb, c) = -1 => _cmp(va, c) = -1

(***************************************************************************)
(* Properties of the kernel catalog                                        *)
(***************************************************************************)

\* The kernel images of the listing.
Qualifying == SelectSeq(boot_dir, is_kernel_image)

\* get_kernel_versions was called and returned a list.
Returned == k_call.called /\ k_out.status = "ok"

\* C1: the first element of the returned list is the image whose key is
\* the maximum, under LooseVersion, of all the keys of kernel_verts.
C1_FirstIsNewest ==
    Returned =>
        \E i \in 1..Len(kernel_verts) :
            /\ kernel_verts[i].val = k_out.list[1]
            /\ \A j \in 1..Len(kernel_verts) :
                   ~__lt__(kernel_verts[i].key, kernel_verts[j].key)

\* C6: every kernel image of the listing is in the returned list, which is
\* as long as the listing has kernel images.
C6_EveryImageListed ==
    Returned =>
        /\ Len(k_out.list) = Len(Qualifying)
        /\ \A i \in 1..Len(Qualifying) :
               in_list(k_out.list, join("-", vert_of(Qualifying[i])))

Candidates == SelectSeq(efi_dir, LAMBDA d : d \notin {"EFI", "loader", DISTRO})

\* A writer was called for the new layout and came to the rendering.
NewLayoutRendered ==
    /\ k_call.op \in {"generate_loader_entry", "generate_recovery_loader_entry"}
    /\ k_call.flag
    /\ k_call.called => k_out.status = "ok"

\* text starts with prefix.
StartsWith(text, prefix) ==
    Len(text) >= Len(prefix) /\ SubSeq(text, 1, Len(prefix)) = prefix

\* C11: the new-layout rendering puts the linux and initrd paths under the
\* one candidate directory of EFI_DIR, and with no candidate or more than
\* one it ends in an error and no entry is written.
C11_OneCandidateOrError ==
    NewLayoutRendered =>
        IF Len(Candidates) = 1
        THEN k_pc = "done" =>
                 \A f \in entry_files :
                     /\ StartsWith(f.lines[2], "linux   " \o Candidates[1] \o "/")
                     /\ StartsWith(f.lines[3], "initrd  " \o Candidates[1] \o "/")
        ELSE k_pc # "done" /\ entry_files = {}

\* The file that generate_loader_entry writes for the arguments of the
\* call made, with boot_args as the arguments.
StandardFile(boot_args) ==
    LET c == entry_contents(boot_dir, efi_dir, boot_args, k_call.root_pointer,
                            k_call.kernel, k_call.flag)
    IN  loader_entry_file(c.contents, k_call.kernel, k_call.flag)

\* C12: the file generate_recovery_loader_entry writes and the file
\* generate_loader_entry writes for the same root pointer, kernel and
\* layout have four lines each; the recovery title is the standard title
\* with " Recovery" appended, the linux and initrd lines are the same, and
\* each options line holds the arguments its call was given.
C12_RecoveryDiffersInTitleAndOptions ==
    (k_call.op = "generate_recovery_loader_entry" /\ k_pc = "done") =>
        \A rec \in entry_files : \A b \in BootArgs : \E std \in {StandardFile(b)} :
            /\ Len(rec.lines) = 4 /\ Len(std.lines) = 4
            /\ rec.lines[1] = std.lines[1] \o " Recovery"
            /\ rec.lines[2] = std.lines[2]
            /\ rec.lines[3] = std.lines[3]
            /\ rec.lines[4] = "options root=" \o k_call.root_pointer \o " "
                                  \o k_call.boot_args
            /\ std.lines[4] = "options root=" \o k_call.root_pointer \o " " \o b

\* The recovery entry of a pinned kernel was written for the legacy
\* layout, with the recovery arguments.
C12_Witness ==
    /\ k_call.op = "generate_recovery_loader_entry" /\ k_pc = "done"
    /\ k_call.kernel = "5.4" /\ ~k_call.flag
    /\ k_call.boot_args = RECOVERY_FLAGS
    /\ \E rec \in entry_files :
           /\ rec.lines[2] = "linux   /" \o DISTRO \o "/vmlinuz-5.4"
           /\ rec.lines[1] = "title  " \o DISTRO \o " 5.4 Recovery"

\* The listings that hold the names of boot_dir in another order.
Reorderings ==
    {[i \in 1..Len(boot_dir) |-> boot_dir[p[i]]] :
        p \in Permutations(1..Len(boot_dir))}

\* C13: get_kernel_versions gives, on every listing that holds the same
\* names in another order, the list it gave on this one.
C13_ListingOrderIrrelevant ==
    Returned =>
        \A listing \in Reorderings :
            LET other == get_kernel_versions(listing)
            IN  other.status = "ok" /\ other.list = k_out.list

(***************************************************************************)
(* Properties of the root pointer                                          *)
(***************************************************************************)

\* get_root_pointer returned a value.
PointerReturned == r_call.op = "get_root_pointer" /\ r_out.status = "ok"

\* A pointer KEY=value whose value is what the enumerator reports in that
\* column for some device, or a device's path when the key type is path.
WellFormedPointer(p) ==
    \/ \E i \in 1..Len(devices) : \E k \in {"uuid", "partuuid", "label"} :
           /\ column(devices[i], k) # None
           /\ column(devices[i], k) # ""
           /\ p = upper(k) \o "=" \o column(devices[i], k)
    \/ /\ settings_key = "path"
       /\ \E i \in 1..Len(devices) : p = devices[i].path

\* C2: whatever get_root_pointer returns is UUID=, PARTUUID= or LABEL=
\* followed by a value the enumerator reports, or a device path when the
\* key type is path; every other call ends in an error.
C2_PointerWellFormed ==
    PointerReturned => WellFormedPointer(r_out.value)

\* The devices with every mountpoint replaced by m.
Remounted(m) == [i \in 1..Len(devices) |-> [devices[i] EXCEPT !.mountpoint = m]]

\* What a call gives, without the index of the device it read.
Outcome(r) == [status |-> r.status, value |-> r.value]

\* C3: with root_device.conf present the result is that of the same call
\* with any UUID.conf or none and with any mountpoints; with only UUID.conf
\* present it is that of the same call with any mountpoints; the device
\* mounted at "/" is read only when both files are absent.
C3_PriorityOrder ==
    r_call.op = "get_root_pointer" =>
        /\ root_device_conf # Absent =>
               /\ r_call.branch = "root_device.conf"
               /\ \A u \in {Absent, "aa", ""}, m \in {None, "/"}, c \in 0..3 :
                      Outcome(r_out) =
                          Outcome(get_root_pointer(Remounted(m), root_device_conf,
                                                   u, settings_key, c))
        /\ (root_device_conf = Absent /\ uuid_conf # Absent) =>
               /\ r_call.branch = "UUID.conf"
               /\ \A m \in {None, "/"} :
                      Outcome(r_out) =
                          Outcome(get_root_pointer(Remounted(m), root_device_conf,
                                                   uuid_conf, settings_key,
                                                   r_call.cols))
        /\ r_call.branch = "infer" <=>
               (root_device_conf = Absent /\ uuid_conf = Absent)

\* Both files are present, a device is mounted at "/", and the pointer
\* returned is read from the device root_device.conf names.
C3_Witness ==
    /\ PointerReturned
    /\ root_device_conf # Absent /\ uuid_conf = "aa"
    /\ \E i \in 1..Len(devices) :
           devices[i].mountpoint = "/" /\ devices[i].uuid = "aa"
    /\ r_out.value = "PARTUUID=None"

\* C4: in the UUID.conf branch the kind of the key is UUID when any device
\* reported has the token as its uuid, else PARTUUID when any has it as its
\* partuuid, else LABEL when any has it as its label.
C4_KindByColumnPriority ==
    (PointerReturned /\ r_call.branch = "UUID.conf") =>
        r_out.value = match_columns_first(devices, uuid_conf, r_call.cols).value

\* C5: a device of type loop is never the one whose mountpoint or
\* identifier gives the result of get_root_partition, of the UUID.conf
\* branch or of the inference from the device mounted at "/".
C5_NoLoopDevice ==
    (/\ r_out.status = "ok"
     /\ r_out.dev # 0
     /\ \/ r_call.op = "get_root_partition"
        \/ r_call.branch \in {"UUID.conf", "infer"}) =>
        devices[r_out.dev].type # "loop"

(***************************************************************************)
(* Properties of the default entry                                         *)
(***************************************************************************)

\* The first word of the text DEFAULTS_FILE had when the last call began,
\* None when it had no word.
FirstToken ==
    IF has_word(s_last.defaults_before)
    THEN first_word(s_last.defaults_before) ELSE None

\* The last call was a run of the service that found itself enabled and
\* read a declared default.
ServiceRanEnabled ==
    s_last.op = "service" /\ s_last.enabled /\ s_last.status = "ok"

\* The ids of the boot manager's entries.
EntryIds == {boot_entries[i].id : i \in 1..Len(boot_entries)}

\* The last run of the service found a default entry other than the
\* declared one, which is not "#".
Drifted ==
    /\ ServiceRanEnabled
    /\ FirstToken # "#"
    /\ s_last.default_before # FirstToken

\* C9: when the first word of DEFAULTS_FILE is "#", check_default_entry
\* gives True whatever the boot manager's entries and default entry are,
\* also when no entry is the default, and a run of the service issues no
\* set-default command and leaves the default entry as it was.
C9_WildcardIsSynchronized ==
    FirstToken = "#" =>
        /\ (s_last.op = "check_default_entry" \/ ServiceRanEnabled)
               => s_last.synced = TRUE
        /\ s_last.op = "service"
               => (s_last.cmds = <<>> /\ live_default = s_last.default_before)

\* A run of the service, enabled, with "#" declared, entries in the boot
\* manager and none of them the default.
C9_Witness ==
    /\ ServiceRanEnabled
    /\ FirstToken = "#"
    /\ s_last.default_before = None
    /\ boot_entries # <<>>
    /\ s_last.synced = TRUE

\* C10: when the service runs enabled and the default entry differs from
\* the declared one, which is not "#", it issues a set-default command for
\* the declared id and leaves DEFAULTS_FILE unchanged.
C10_DriftIssuesSetDefault ==
    Drifted =>
        /\ s_last.cmds # <<>>
        /\ \A i \in 1..Len(s_last.cmds) : s_last.cmds[i] = FirstToken
        /\ defaults_file = s_last.defaults_before

\* The last run of the service began drifted with the id of one of the
\* boot manager's entries declared, and no set-default command failed.
DriftedAndCorrectable ==
    /\ Drifted
    /\ FirstToken \in EntryIds
    /\ ~s_last.set_failed

\* C15: after a run of the service that began drifted, with the id of an
\* entry declared and set-default succeeding, the list parsed by
\* get_boot_entries has the declared id as the default and
\* check_default_entry gives True; and a run that begins with the declared
\* id parsed as the default issues no set-default command.
C15_Converges ==
    /\ DriftedAndCorrectable =>
           /\ get_default_boot_entry(boot_entries, live_default) = FirstToken
           /\ check_default_entry(defaults_file, boot_entries, live_default).value
    /\ (/\ ServiceRanEnabled
        /\ get_default_boot_entry(boot_entries, s_last.default_before) = FirstToken)
           => s_last.cmds = <<>>

====
